---- MODULE Spec2Model ----
(***************************************************************************)
(* Model of the Morocco national team roster scraper and its summary      *)
(* (scraper.py), its standalone caller (run.py) and the dashboard's cached *)
(* loader (streamlit_app.py).                                              *)
(*                                                                         *)
(* Texts are TLA+ strings; the text functions of the code (regular         *)
(* expression substitutions, strip, numeric parsing) are computed          *)
(* character by character.                                                 *)
(***************************************************************************)
EXTENDS Integers, Sequences, FiniteSets, TLC

VARIABLES
    pc,       \* position of the caller (run.py main, or the pure-function drivers)
    resp,     \* what the HTTP GET of the current invocation produced
    df,       \* the value scrape_morocco_team_table returned to the caller
    gets,     \* number of HTTP GETs issued so far
    written,  \* what has been written to the export file ("nofile" before)
    cache,    \* st.cache_data entry of load_data
    served,   \* what the last load_data call handed to the dashboard script
    arg,      \* input of the pure function under check
    out,      \* its output
    stats     \* what get_summary_stats returned to the caller

vars == <<pc, resp, df, gets, written, cache, served, arg, out, stats>>

----------------------------------------------------------------------------
(* Text primitives *)

Char(s, i) == SubSeq(s, i, i)

Drop(s, n) == SubSeq(s, n + 1, Len(s))

Take(s, n) == SubSeq(s, 1, n)

\* s.find(sub) >= 0
Contains(s, sub) ==
    \E i \in 1..(Len(s) - Len(sub) + 1) : SubSeq(s, i, i + Len(sub) - 1) = sub

StartsWith(s, p) == Len(s) >= Len(p) /\ Take(s, Len(p)) = p

\* index of the first occurrence of the one-character text c at or after from, 0 if none
IndexFrom(s, c, from) ==
    LET hits == {i \in from..Len(s) : Char(s, i) = c}
    IN  IF hits = {} THEN 0 ELSE CHOOSE i \in hits : \A j \in hits : i <= j

IsSpace(c) == c \in {" ", "\t", "\n"}

RECURSIVE LStrip(_)
LStrip(s) == IF s # "" /\ IsSpace(Char(s, 1)) THEN LStrip(Drop(s, 1)) ELSE s

RECURSIVE RStrip(_)
RStrip(s) == IF s # "" /\ IsSpace(Char(s, Len(s))) THEN RStrip(Take(s, Len(s) - 1)) ELSE s

\* str.strip()
Strip(s) == RStrip(LStrip(s))

UpperCase == <<"A","B","C","D","E","F","G","H","I","J","K","L","M",
               "N","O","P","Q","R","S","T","U","V","W","X","Y","Z">>

LowerCase == <<"a","b","c","d","e","f","g","h","i","j","k","l","m",
               "n","o","p","q","r","s","t","u","v","w","x","y","z">>

LowerChar(c) ==
    IF \E k \in 1..26 : UpperCase[k] = c
    THEN LowerCase[CHOOSE k \in 1..26 : UpperCase[k] = c]
    ELSE c

\* str.lower()
RECURSIVE Lower(_)
Lower(s) == IF s = "" THEN "" ELSE LowerChar(Char(s, 1)) \o Lower(Drop(s, 1))

Digits == <<"0","1","2","3","4","5","6","7","8","9">>

IsDigit(c) == \E k \in 1..10 : Digits[k] = c

DigitVal(c) == (CHOOSE k \in 1..10 : Digits[k] = c) - 1

----------------------------------------------------------------------------
(* Cell cleanup, scraper.py lines 104-115 *)

\* re.sub(r'\[.*?\]', '', text): leftmost, non-greedy, non-overlapping;
\* '.' does not match a newline
RECURSIVE SubBrackets(_)
SubBrackets(s) ==
    IF s = "" THEN ""
    ELSE LET close == IndexFrom(s, "]", 2)
             nl    == IndexFrom(s, "\n", 2)
         IN  IF Char(s, 1) = "[" /\ close > 0 /\ (nl = 0 \/ nl > close)
             THEN SubBrackets(Drop(s, close))
             ELSE Char(s, 1) \o SubBrackets(Drop(s, 1))

\* re.sub(r'\(age.*?\)', '', text)
RECURSIVE SubAge(_)
SubAge(s) ==
    IF s = "" THEN ""
    ELSE LET close == IndexFrom(s, ")", 5)
             nl    == IndexFrom(s, "\n", 5)
         IN  IF StartsWith(s, "(age") /\ close > 0 /\ (nl = 0 \/ nl > close)
             THEN SubAge(Drop(s, close))
             ELSE Char(s, 1) \o SubAge(Drop(s, 1))

\* re.sub(r'[()]', '', text)
RECURSIVE SubParens(_)
SubParens(s) ==
    IF s = "" THEN ""
    ELSE (IF Char(s, 1) \in {"(", ")"} THEN "" ELSE Char(s, 1)) \o SubParens(Drop(s, 1))

\* the mutated cleanup: the index test is made on the header label position
\* shifted by one
CleanCellShifted(i, text) ==
    IF i = 1 THEN SubBrackets(text)
    ELSE IF i = 3 THEN SubBrackets(text)
    ELSE IF i = 4 THEN Strip(SubParens(SubAge(text)))
    ELSE text

\* the body of the loop over enumerate(cells), applied to the cell's text
CleanCell(i, text) ==
    IF i = 0 THEN SubBrackets(text)
    ELSE IF i = 2 THEN SubBrackets(text)
    ELSE IF i = 3 THEN Strip(SubParens(SubAge(text)))
    ELSE text

----------------------------------------------------------------------------
(* Values of DataFrame cells: a text, a number n/d (d > 0), or missing (NaN) *)

Str(s) == [t |-> "str", s |-> s, n |-> 0, d |-> 1]

Num(n, d) == [t |-> "num", s |-> "", n |-> n, d |-> d]

NaN == [t |-> "nan", s |-> "", n |-> 0, d |-> 1]

NumEq(a, b) == a.t = "num" /\ b.t = "num" /\ a.n * b.d = b.n * a.d

RECURSIVE NatOf(_)
NatOf(s) == IF s = "" THEN 0 ELSE NatOf(Take(s, Len(s) - 1)) * 10 + DigitVal(Char(s, Len(s)))

AllDigits(s) == \A i \in 1..Len(s) : IsDigit(Char(s, i))

RECURSIVE Pow10(_)
Pow10(k) == IF k = 0 THEN 1 ELSE 10 * Pow10(k - 1)

ParseUnsigned(s) ==
    LET dot  == IndexFrom(s, ".", 1)
        intp == IF dot = 0 THEN s ELSE Take(s, dot - 1)
        frac == IF dot = 0 THEN "" ELSE Drop(s, dot)
    IN  IF AllDigits(intp) /\ AllDigits(frac) /\ Len(intp) + Len(frac) > 0
        THEN Num(NatOf(intp \o frac), Pow10(Len(frac)))
        ELSE NaN

\* pd.to_numeric(text, errors='coerce') on one text: an optionally signed
\* decimal numeral converts to its value, anything else to NaN
ToNumeric(s) ==
    LET neg == StartsWith(s, "-")
        u   == ParseUnsigned(IF neg THEN Drop(s, 1) ELSE s)
    IN  IF u.t = "nan" THEN NaN
        ELSE IF neg THEN Num(0 - u.n, u.d) ELSE u

\* Series.str.extract(r'(\d{4})') on one text: the first run of four digits
ExtractYear(s) ==
    LET hits == {i \in 1..(Len(s) - 3) : AllDigits(SubSeq(s, i, i + 3))}
    IN  IF hits = {} THEN NaN
        ELSE LET i == CHOOSE i \in hits : \A j \in hits : i <= j
             IN  Str(SubSeq(s, i, i + 3))

CurrentYear == 2026

----------------------------------------------------------------------------
(* The parsed document.                                                    *)
(* A cell is the sequence of its text nodes; a table row has its class     *)
(* attribute and its cells; a table has an optional caption, its rows in   *)
(* document order and how they are sectioned: "none" (rows directly under  *)
(* the table), "tbody" (all rows, the first included, in one tbody) or     *)
(* "thead" (first row in a thead, the others in a tbody).  A document is   *)
(* the sequence of its headings, tables and other elements in document     *)
(* order, each with the identity of its parent element.                    *)

RECURSIVE JoinStripped(_, _)
JoinStripped(nodes, sep) ==
    IF nodes = <<>> THEN ""
    ELSE LET h == Strip(Head(nodes))
             r == JoinStripped(Tail(nodes), sep)
         IN  IF h = "" THEN r ELSE IF r = "" THEN h ELSE h \o sep \o r

\* Tag.get_text(strip=True, separator=sep)
GetTextStrip(cell, sep) == JoinStripped(cell, sep)

RECURSIVE Concat(_)
Concat(texts) == IF texts = <<>> THEN "" ELSE Head(texts) \o Concat(Tail(texts))

\* Tag.get_text() of a table: every text node, concatenated
TableText(t) ==
    t.caption \o Concat([i \in 1..Len(t.trs) |->
                            Concat([j \in 1..Len(t.trs[i].cells) |->
                                       Concat(t.trs[i].cells[j])])])

NoTable == [caption |-> "", sect |-> "absent", trs |-> <<>>]

Keywords == {"gk", "df", "mf", "fw", "caps", "goals"}

HeaderHints == {"No.", "Pos.", "Player", "Caps", "Goals"}

\* lines 24-27: the first h2/h3/h4 whose text contains 'player'; 0 if none
PlayersSection(doc) ==
    LET hs == {i \in 1..Len(doc) :
                  /\ doc[i].tag \in {"h2", "h3", "h4"}
                  /\ Contains(Lower(Strip(doc[i].text)), "player")}
    IN  IF hs = {} THEN 0 ELSE CHOOSE i \in hs : \A j \in hs : i <= j

\* lines 32-38: the first table among the later siblings of the heading; 0 if none
StageA(doc) ==
    LET h  == PlayersSection(doc)
        ts == IF h = 0 THEN {}
              ELSE {j \in (h + 1)..Len(doc) :
                       doc[j].parent = doc[h].parent /\ doc[j].tag = "table"}
    IN  IF ts = {} THEN 0 ELSE CHOOSE j \in ts : \A k \in ts : j <= k

\* lines 44-56 for one table: the keyword test, then the header test inside
\* the inner try (a table without any row raises there and is skipped)
StageBMatch(t) ==
    /\ \E k \in Keywords : Contains(Lower(TableText(t)), k)
    /\ t.trs # <<>>
    /\ \E j \in 1..Len(t.trs[1].cells) : \E h \in HeaderHints :
            Contains(GetTextStrip(t.trs[1].cells[j], ""), h)

\* lines 41-56: the first table of the document that matches; 0 if none
StageB(doc) ==
    LET ts == {j \in 1..Len(doc) : doc[j].tag = "table" /\ StageBMatch(doc[j].tbl)}
    IN  IF ts = {} THEN 0 ELSE CHOOSE j \in ts : \A k \in ts : j <= k

\* the mutated locator: the keyword scan runs first
LocateKeywordFirst(doc) ==
    LET b == StageB(doc) IN IF b # 0 THEN b ELSE StageA(doc)

\* lines 22-56: position in the document of target_table, 0 when it is None
Locate(doc) ==
    LET a == StageA(doc) IN IF a # 0 THEN a ELSE StageB(doc)

----------------------------------------------------------------------------
(* Header and row extraction, scraper.py lines 61-120 *)

DefaultHeaders ==
    <<"Number", "Position", "Player", "Date_of_Birth", "Caps", "Goals", "Club">>

\* lines 72-87
MapHeader(text) ==
    IF text = "No." THEN "Number"
    ELSE IF text = "Pos." THEN "Position"
    ELSE IF text = "Player" THEN "Player"
    ELSE IF Contains(text, "Date of birth") \/ Contains(text, "Birth") THEN "Date_of_Birth"
    ELSE IF text = "Caps" THEN "Caps"
    ELSE IF text = "Goals" THEN "Goals"
    ELSE IF text = "Club" THEN "Club"
    ELSE text

\* lines 62-89: the first tr of the table is the header row
Headers(t) ==
    IF t.trs # <<>>
    THEN [j \in 1..Len(t.trs[1].cells) |-> MapHeader(GetTextStrip(t.trs[1].cells[j], ""))]
    ELSE DefaultHeaders

\* lines 93-94: tbody.find_all('tr') if tbody else target_table.find_all('tr')[1:]
BodyRows(t) ==
    IF t.sect = "tbody" THEN t.trs
    ELSE IF t.trs = <<>> THEN <<>> ELSE Tail(t.trs)

\* line 97
Skipped(row) == "sortbottom" \in row.cls \/ "mw-empty-elt" \in row.cls

\* the mutated test: the count of cells is not looked at
AcceptedAnyWidth(row) == ~Skipped(row)

\* lines 97-103
Accepted(row) == ~Skipped(row) /\ Len(row.cells) >= 4

\* lines 104-120: cleaned cell texts, padded with '' or cut to the header count
RowData(row, n) ==
    [i \in 1..n |->
        IF i <= Len(row.cells)
        THEN CleanCell(i - 1, GetTextStrip(row.cells[i], " "))
        ELSE ""]

RECURSIVE SelectAccepted(_)
SelectAccepted(rows) ==
    IF rows = <<>> THEN <<>>
    ELSE IF Accepted(Head(rows))
         THEN <<Head(rows)>> \o SelectAccepted(Tail(rows))
         ELSE SelectAccepted(Tail(rows))

\* lines 92-120: the list `data`
Data(t) ==
    LET acc == SelectAccepted(BodyRows(t))
        n   == Len(Headers(t))
    IN  [k \in 1..Len(acc) |-> RowData(acc[k], n)]

----------------------------------------------------------------------------
(* The DataFrame, scraper.py lines 125-151.                                *)
(* A frame is its column labels and its rows; a row keeps its index label  *)
(* and maps each column label to a value.                                  *)

None == [k |-> "None", cols |-> <<>>, rows |-> <<>>]

Raised == [k |-> "raise", cols |-> <<>>, rows |-> <<>>]

Frame(cols, rows) == [k |-> "df", cols |-> cols, rows |-> rows]

Range(f) == {f[i] : i \in DOMAIN f}

HasCol(frame, c) == c \in Range(frame.cols)

ColPos(cols, c) == CHOOSE j \in 1..Len(cols) : cols[j] = c

\* line 126: pd.DataFrame(data, columns=headers)
MakeFrame(data, headers) ==
    Frame(headers,
          [k \in 1..Len(data) |->
              [idx |-> k - 1,
               v   |-> [c \in Range(headers) |-> Str(data[k][ColPos(headers, c)])]]])

RECURSIVE SelectNamed(_)
SelectNamed(rows) ==
    IF rows = <<>> THEN <<>>
    ELSE IF Head(rows).v["Player"].t # "nan" /\ Head(rows).v["Player"] # Str("")
         THEN <<Head(rows)>> \o SelectNamed(Tail(rows))
         ELSE SelectNamed(Tail(rows))

\* the mutated filter: no row is dropped
DropUnnamedKeepAll(frame) == frame

\* line 129: df[df['Player'].notna() & (df['Player'] != '')]
DropUnnamed(frame) == Frame(frame.cols, SelectNamed(frame.rows))

NumericCols == {"Number", "Caps", "Goals"}

\* lines 132-134
ConvertNumeric(frame) ==
    Frame(frame.cols,
          [k \in 1..Len(frame.rows) |->
              [frame.rows[k] EXCEPT !.v =
                  [c \in DOMAIN @ |-> IF c \in NumericCols THEN ToNumeric(@[c].s) ELSE @[c]]]])

\* one row's Birth_Year (lines 138-139) and Age (line 142)
BirthYear(dob) ==
    LET y == ExtractYear(dob) IN IF y.t = "nan" THEN NaN ELSE ToNumeric(y.s)

Age(by) == IF by.t = "nan" THEN NaN ELSE Num(CurrentYear * by.d - by.n, by.d)

WithCol(v, c, x) == [e \in (DOMAIN v) \cup {c} |-> IF e = c THEN x ELSE v[e]]

AppendCol(cols, c) == IF c \in Range(cols) THEN cols ELSE Append(cols, c)

\* lines 137-142
AddBirth(frame) ==
    IF ~HasCol(frame, "Date_of_Birth") THEN frame
    ELSE Frame(AppendCol(AppendCol(frame.cols, "Birth_Year"), "Age"),
               [k \in 1..Len(frame.rows) |->
                   LET r  == frame.rows[k]
                       by == BirthYear(r.v["Date_of_Birth"].s)
                   IN  [r EXCEPT !.v = WithCol(WithCol(@, "Birth_Year", by), "Age", Age(by))]])

Div(g, c) == IF g.t = "num" THEN Num(g.n * c.d, g.d * c.n) ELSE NaN

\* line 147: x['Goals'] / x['Caps'] if x['Caps'] > 0 else 0
GoalRatio(caps, goals) ==
    IF caps.t = "num" /\ caps.n > 0 THEN Div(goals, caps) ELSE Num(0, 1)

\* lines 145-149.  On a frame without rows DataFrame.apply(axis=1) gives,
\* depending on the pandas release, an empty Series (the column is added) or
\* a copy of the frame (the assignment then raises ValueError):
\* emptyApplyRaises says which.
AddRatio(frame, emptyApplyRaises) ==
    IF ~(HasCol(frame, "Caps") /\ HasCol(frame, "Goals")) THEN frame
    ELSE IF frame.rows = <<>> /\ emptyApplyRaises THEN Raised
    ELSE Frame(AppendCol(frame.cols, "Goal_Ratio"),
               [k \in 1..Len(frame.rows) |->
                   LET r == frame.rows[k]
                   IN  [r EXCEPT !.v =
                           WithCol(@, "Goal_Ratio", GoalRatio(r.v["Caps"], r.v["Goals"]))]])

\* lines 61-151 on the located table: None, a frame, or Raised when the
\* statement at line 129 (KeyError: 'Player') or at line 146 raises
Normalize(t, emptyApplyRaises) ==
    LET headers == Headers(t)
        data    == Data(t)
    IN  IF data = <<>> THEN None
        ELSE IF "Player" \notin Range(headers) THEN Raised
        ELSE AddRatio(AddBirth(ConvertNumeric(DropUnnamed(MakeFrame(data, headers)))),
                      emptyApplyRaises)

----------------------------------------------------------------------------
(* scrape_morocco_team_table, scraper.py lines 8-155.                      *)
(* A response is what the GET produced: a transport error, or a status     *)
(* code with a body that the HTML parser accepts (a document) or rejects.  *)

NetErr == [kind |-> "neterr", code |-> 0, doc |-> <<>>]

BadHtml == [kind |-> "badhtml", code |-> 200, doc |-> <<>>]

Page(code, doc) == [kind |-> "page", code |-> code, doc |-> doc]

\* lines 12-151, the body of the try statement
ScrapeBody(r, emptyApplyRaises) ==
    LET target == Locate(r.doc)
    IN  IF r.kind = "neterr" THEN Raised
        ELSE IF r.code >= 400 THEN Raised
        ELSE IF r.kind = "badhtml" THEN Raised
        ELSE IF target = 0 THEN None
        ELSE Normalize(r.doc[target].tbl, emptyApplyRaises)

\* the mutated handler: the except clause is missing
scrape_uncaught(r, emptyApplyRaises) == ScrapeBody(r, emptyApplyRaises)

\* lines 11-155: try ... except Exception: return None
scrape_morocco_team_table(r, emptyApplyRaises) ==
    LET body == ScrapeBody(r, emptyApplyRaises)
    IN  IF body.k = "raise" THEN None ELSE body

NoFile == [k |-> "nofile", cols |-> <<>>, rows |-> <<>>]

\* scraper.py lines 158-164: the returned flag and the file's content afterwards
save_to_csv(frame, file) ==
    IF frame # None THEN [ret |-> TRUE, file |-> frame]
    ELSE [ret |-> FALSE, file |-> file]

\* index in frame.rows of Series.idxmax() of column c: the first row holding
\* the largest value, missing values skipped; 0 when every value is missing
IdxMax(frame, c) ==
    LET present == {k \in 1..Len(frame.rows) : frame.rows[k].v[c].t = "num"}
        top     == {k \in present : \A j \in present :
                        frame.rows[j].v[c].n * frame.rows[k].v[c].d
                            <= frame.rows[k].v[c].n * frame.rows[j].v[c].d}
    IN  IF present = {} THEN 0 ELSE CHOOSE k \in top : \A j \in top : k <= j

\* scraper.py lines 194-210: int() of a missing value raises ValueError
StatsRaises(frame) ==
    /\ frame.k = "df"
    /\ HasCol(frame, "Player") /\ HasCol(frame, "Caps") /\ HasCol(frame, "Goals")
    /\ \/ /\ IdxMax(frame, "Goals") # 0
          /\ frame.rows[IdxMax(frame, "Goals")].v["Caps"].t = "nan"
       \/ /\ IdxMax(frame, "Caps") # 0
          /\ frame.rows[IdxMax(frame, "Caps")].v["Goals"].t = "nan"

\* int(x) of a number: the fraction is cut off, towards zero
IntOf(x) == IF x.n >= 0 THEN x.n \div x.d ELSE -((-x.n) \div x.d)

\* Series.sum() of column c: missing values are left out, 0 for none
RECURSIVE SumRows(_, _)
SumRows(rows, c) ==
    IF rows = <<>> THEN Num(0, 1)
    ELSE LET x    == Head(rows).v[c]
             rest == SumRows(Tail(rows), c)
         IN  IF x.t = "num" THEN Num(x.n * rest.d + rest.n * x.d, x.d * rest.d)
             ELSE rest

\* Series.mean() of column c: missing values are left out, NaN for none
Mean(frame, c) ==
    LET count == Cardinality({k \in 1..Len(frame.rows) : frame.rows[k].v[c].t = "num"})
        sum   == SumRows(frame.rows, c)
    IN  IF count = 0 THEN NaN ELSE Num(sum.n, sum.d * count)

\* line 183: value_counts().to_dict() of the Position column
ValueCounts(frame, c) ==
    [p \in {frame.rows[k].v[c].s : k \in 1..Len(frame.rows)} |->
        Cardinality({k \in 1..Len(frame.rows) : frame.rows[k].v[c].s = p})]

NoneValue == [t |-> "none", s |-> "", n |-> 0, d |-> 1]

NoEntry == [set |-> FALSE, name |-> "", goals |-> 0, caps |-> 0]

Entry(name, goals, caps) == [set |-> TRUE, name |-> name, goals |-> goals, caps |-> caps]

StatsRecord(k, total_players, positions, total_caps, total_goals, avg_age, top_scorer, most_experienced) ==
    [k |-> k, total_players |-> total_players, positions |-> positions,
     total_caps |-> total_caps, total_goals |-> total_goals, avg_age |-> avg_age,
     top_scorer |-> top_scorer, most_experienced |-> most_experienced]

\* no call of get_summary_stats yet
NoStats == StatsRecord("unset", 0, <<>>, 0, 0, NoneValue, NoEntry, NoEntry)

\* lines 169-170: the empty dict
EmptyStats == StatsRecord("empty", 0, <<>>, 0, 0, NoneValue, NoEntry, NoEntry)

\* a ValueError leaves get_summary_stats
RaisedStats == StatsRecord("raise", 0, <<>>, 0, 0, NoneValue, NoEntry, NoEntry)

\* lines 194-201
TopScorer(frame) ==
    LET top == IdxMax(frame, "Goals")
    IN  IF top = 0 THEN NoEntry
        ELSE Entry(frame.rows[top].v["Player"].s,
                   IntOf(frame.rows[top].v["Goals"]),
                   IF HasCol(frame, "Caps") THEN IntOf(frame.rows[top].v["Caps"]) ELSE 0)

\* lines 203-210
MostExperienced(frame) ==
    LET top == IdxMax(frame, "Caps")
    IN  IF top = 0 THEN NoEntry
        ELSE Entry(frame.rows[top].v["Player"].s,
                   IF HasCol(frame, "Goals") THEN IntOf(frame.rows[top].v["Goals"]) ELSE 0,
                   IntOf(frame.rows[top].v["Caps"]))

\* scraper.py lines 167-212
get_summary_stats(frame) ==
    IF frame = None THEN EmptyStats
    ELSE IF StatsRaises(frame) THEN RaisedStats
    ELSE StatsRecord("stats",
             Len(frame.rows),
             IF HasCol(frame, "Position") THEN ValueCounts(frame, "Position") ELSE <<>>,
             IF HasCol(frame, "Caps") THEN IntOf(SumRows(frame.rows, "Caps")) ELSE 0,
             IF HasCol(frame, "Goals") THEN IntOf(SumRows(frame.rows, "Goals")) ELSE 0,
             IF HasCol(frame, "Age") THEN Mean(frame, "Age") ELSE NoneValue,
             IF HasCol(frame, "Player") /\ HasCol(frame, "Goals")
                 THEN TopScorer(frame) ELSE NoEntry,
             IF HasCol(frame, "Player") /\ HasCol(frame, "Caps")
                 THEN MostExperienced(frame) ELSE NoEntry)

----------------------------------------------------------------------------
(* The responses the model draws from *)

MaxRows == 2

Td(text) == <<text>>

HeaderRow(labels) == [cls |-> {}, cells |-> [j \in 1..Len(labels) |-> <<labels[j]>>]]

HeaderLabels ==
    { <<"No.", "Pos.", "Player", "Date of birth (age)", "Caps", "Goals">>,
      <<"No.", "Pos.", "Player", "Date of birth (age)">>,
      <<"Pos.", "Name", "Caps", "Goals">>,
      <<"Player", "Caps", "Goals">> }

Row(cls, cells) == [cls |-> cls, cells |-> cells]

Player6(name, caps, goals) ==
    Row({}, <<Td("7"), Td("GK"), name, Td("1991 (age 34)"), Td(caps), Td(goals)>>)

RowVocab ==
    { Player6(<<"Bo", "[1]">>, "4", "2"),
      Player6(<<"Ha">>, "0", "2"),
      Player6(<<"Zi">>, "", "2"),
      Player6(<<"Di">>, "4", ""),
      Player6(<<"Ou">>, "-3", "2"),
      Player6(<<"Ag">>, "2.5", "1"),
      Player6(<<"[2]">>, "4", "2"),
      Row({}, <<Td("Coach"), Td("Regragui"), Td("")>>),
      Row({}, <<Td("x"), Td("DF"), Td("Sa"), Td("1 May 1998")>>),
      Row({"sortbottom"}, <<Td("9"), Td("FW"), Td("En"), Td("1997"), Td("9"), Td("9")>>),
      Row({}, <<Td("3"), Td("MF"), Td("Am"), Td("(1996)"), Td("1"), Td("0"), Td("Club")>>) }

RECURSIVE SeqsUpTo(_, _)
SeqsUpTo(S, n) ==
    IF n = 0 THEN {<<>>}
    ELSE LET shorter == SeqsUpTo(S, n - 1)
         IN  shorter \cup {Append(q, x) : q \in shorter, x \in S}

Tables ==
    { [caption |-> "", sect |-> sc, trs |-> <<HeaderRow(h)>> \o rows] :
        sc \in {"none", "tbody", "thead"}, h \in HeaderLabels,
        rows \in SeqsUpTo(RowVocab, MaxRows) }
    \cup { [caption |-> cap, sect |-> sc, trs |-> <<>>] :
             cap \in {"", "Caps"}, sc \in {"none", "tbody"} }

StageBTables ==
    {t \in Tables : t.caption = "Caps" \/ (Len(t.trs) = 2 /\ t.sect = "tbody")}

Heading(tag, text, parent) == [tag |-> tag, text |-> text, tbl |-> NoTable, parent |-> parent]

TableNode(t, parent) == [tag |-> "table", text |-> "", tbl |-> t, parent |-> parent]

Other(parent) == [tag |-> "p", text |-> "", tbl |-> NoTable, parent |-> parent]

Responses ==
    {NetErr, BadHtml, Page(404, <<>>), Page(500, <<>>), Page(304, <<>>), Page(200, <<>>),
     Page(200, <<Heading("h2", "Players", 0), Other(0)>>)}
    \cup {Page(200, <<Heading("h2", "Players", 0), Other(0), TableNode(t, 0)>>) : t \in Tables}
    \cup {Page(200, <<TableNode(t, 0), Heading("h3", "Players", 1)>>) : t \in StageBTables}

----------------------------------------------------------------------------
(* run.py, main(), choice '2': scrape, export, summary *)

Init ==
    /\ pc = "main"
    /\ resp = NetErr
    /\ df = None
    /\ gets = 0
    /\ written = NoFile
    /\ cache = [state |-> "empty", value |-> None]
    /\ served = None
    /\ stats = NoStats
    /\ arg = <<>>
    /\ out = <<>>

\* run.py line 30
MainScrape ==
    /\ pc = "main"
    /\ \E r \in Responses, emptyApplyRaises \in BOOLEAN :
          /\ resp' = r
          /\ df' = scrape_morocco_team_table(r, emptyApplyRaises)
    /\ gets' = gets + 1
    /\ pc' = "scraped"
    /\ UNCHANGED <<written, cache, served, arg, out, stats>>

\* run.py lines 31-32
MainSave ==
    /\ pc = "scraped"
    /\ df # None
    /\ written' = save_to_csv(df, written).file
    /\ pc' = "saved"
    /\ UNCHANGED <<resp, df, gets, cache, served, arg, out, stats>>

\* run.py lines 33-36
MainStats ==
    /\ pc = "saved"
    /\ stats' = get_summary_stats(df)
    /\ pc' = IF stats'.k = "raise" THEN "crashed" ELSE "done"
    /\ UNCHANGED <<resp, df, gets, written, cache, served, arg, out>>

\* the mutated caller: a failed scrape is tried again
MainFailRetry ==
    /\ pc = "scraped"
    /\ df = None
    /\ pc' = "main"
    /\ UNCHANGED <<resp, df, gets, written, cache, served, arg, out, stats>>

\* run.py lines 37-38
MainFail ==
    /\ pc = "scraped"
    /\ df = None
    /\ pc' = "failed"
    /\ UNCHANGED <<resp, df, gets, written, cache, served, arg, out, stats>>

Next == MainScrape \/ MainSave \/ MainStats \/ MainFail

Spec == Init /\ [][Next]_vars

----------------------------------------------------------------------------
(* streamlit_app.py: load_data under st.cache_data(ttl=3600), the Refresh   *)
(* button, and the two load_data calls of one script run.                  *)
(* The cache entry of load_data is empty or holds the value the function   *)
(* returned; st.cache_data stores whatever value the function returns.     *)

MaxFetches == 3

EmptyCache == [state |-> "empty", value |-> None]

\* streamlit_app.py lines 86-88: the entry written after a miss
CacheStore(v) == [state |-> "fresh", value |-> v]

DashTables ==
    { [caption |-> "", sect |-> "none",
       trs |-> <<HeaderRow(<<"No.", "Pos.", "Player", "Date of birth (age)", "Caps", "Goals">>)>>
               \o rows] :
        rows \in { <<Player6(<<"Bo", "[1]">>, "4", "2")>>,
                   <<Player6(<<"Ha">>, "0", "2"), Player6(<<"Zi">>, "", "2")>>,
                   <<Player6(<<"[2]">>, "4", "2")>> } }

DashResponses ==
    {NetErr, Page(500, <<>>), Page(200, <<>>)}
    \cup {Page(200, <<Heading("h2", "Players", 0), TableNode(t, 0)>>) : t \in DashTables}

InitDash ==
    /\ pc = "idle"
    /\ resp = NetErr
    /\ df = None
    /\ gets = 0
    /\ written = NoFile
    /\ cache = EmptyCache
    /\ served = None
    /\ stats = NoStats
    /\ arg = <<>>
    /\ out = <<>>

\* a browser session opens the page, or a widget changes: the script runs
ScriptRun ==
    /\ pc = "idle"
    /\ pc' = "sidebar"
    /\ UNCHANGED <<resp, df, gets, written, cache, served, arg, out, stats>>

\* streamlit_app.py lines 98-100: st.cache_data.clear(); st.rerun()
Refresh ==
    /\ pc = "idle"
    /\ cache' = EmptyCache
    /\ pc' = "sidebar"
    /\ UNCHANGED <<resp, df, gets, written, served, arg, out, stats>>

\* the ttl of the entry elapses
Expire ==
    /\ cache.state = "fresh"
    /\ cache' = EmptyCache
    /\ UNCHANGED <<pc, resp, df, gets, written, served, arg, out, stats>>

\* load_data() finds its entry: no call of the function
LoadHit(from, to) ==
    /\ pc = from
    /\ cache.state = "fresh"
    /\ served' = cache.value
    /\ pc' = to
    /\ UNCHANGED <<resp, df, gets, written, cache, arg, out, stats>>

\* load_data() finds no entry: the function runs and its value is stored
LoadMiss(from, to) ==
    /\ pc = from
    /\ cache.state = "empty"
    /\ gets < MaxFetches
    /\ \E r \in DashResponses, emptyApplyRaises \in BOOLEAN :
          /\ resp' = r
          /\ served' = scrape_morocco_team_table(r, emptyApplyRaises)
          /\ cache' = CacheStore(scrape_morocco_team_table(r, emptyApplyRaises))
    /\ gets' = gets + 1
    /\ pc' = to
    /\ UNCHANGED <<df, written, arg, out, stats>>

\* streamlit_app.py line 108
SidebarLoadHit == LoadHit("sidebar", "main")

SidebarLoadMiss == LoadMiss("sidebar", "main")

\* streamlit_app.py line 162
MainLoadHit == LoadHit("main", "loaded")

MainLoadMiss == LoadMiss("main", "loaded")

\* streamlit_app.py lines 164-166 and the rest of the script
Render ==
    /\ pc = "loaded"
    /\ df' = served
    /\ pc' = "idle"
    /\ UNCHANGED <<resp, gets, written, cache, served, arg, out, stats>>

NextDash ==
    \/ ScriptRun \/ Refresh \/ Expire
    \/ SidebarLoadHit \/ SidebarLoadMiss \/ MainLoadHit \/ MainLoadMiss
    \/ Render

SpecDash == InitDash /\ [][NextDash]_vars

----------------------------------------------------------------------------
(* The locator on its own: arg is the document, out the position of the    *)
(* table it selects (0 for none).                                          *)

MaxNodes == 4

PlainTable ==
    [caption |-> "", sect |-> "tbody",
     trs |-> <<HeaderRow(<<"Year", "Team">>), Row({}, <<Td("2022"), Td("Morocco")>>)>>]

KeywordTable ==
    [caption |-> "", sect |-> "tbody",
     trs |-> <<HeaderRow(<<"No.", "Player">>), Row({}, <<Td("1"), Td("GK")>>)>>]

KeywordOnlyTable ==
    [caption |-> "", sect |-> "tbody",
     trs |-> <<HeaderRow(<<"Year", "Result">>), Row({}, <<Td("2022"), Td("2 Goals")>>)>>]

NodeVocab ==
    { Heading("h2", " Players ", 0), Heading("h3", "Top PLAYERS", 1),
      Heading("h1", "Players", 0),
      TableNode(PlainTable, 0), TableNode(KeywordTable, 0), TableNode(KeywordTable, 1),
      TableNode(KeywordOnlyTable, 0) }

\* the children of the one nested container are contiguous in document order
WellNested(doc) ==
    \A i, k \in 1..Len(doc) :
        (i < k /\ doc[i].parent = 1 /\ doc[k].parent = 1)
            => \A j \in (i + 1)..(k - 1) : doc[j].parent = 1

Docs == {d \in SeqsUpTo(NodeVocab, MaxNodes) : WellNested(d)}

InitLocate ==
    /\ pc = "parsed"
    /\ arg \in Docs
    /\ out = 0
    /\ resp = NetErr
    /\ df = None
    /\ gets = 0
    /\ written = NoFile
    /\ cache = EmptyCache
    /\ served = None
    /\ stats = NoStats

LocateStep ==
    /\ pc = "parsed"
    /\ out' = Locate(arg)
    /\ pc' = "located"
    /\ UNCHANGED <<resp, df, gets, written, cache, served, arg, stats>>

NextLocate == LocateStep

SpecLocate == InitLocate /\ [][NextLocate]_vars

----------------------------------------------------------------------------
(* The cell cleanup on its own: arg is the cell text returned by           *)
(* get_text and its index in the row, out the cleaned text.                 *)

MaxTokens == 4

Tokens == {"[", "]", "(", ")", "(age", " ", "a"}

RECURSIVE TokenTexts(_)
TokenTexts(n) ==
    IF n = 0 THEN {""}
    ELSE LET shorter == TokenTexts(n - 1)
         IN  shorter \cup {s \o tk : s \in shorter, tk \in Tokens}

ExampleTexts ==
    {"Achraf Hakimi[1]", "5 November 1996 (age 28)", "Yassine Bounou[2][a]"}

\* get_text(strip=True, ...) returns no text with surrounding whitespace
CellTexts == {s \in TokenTexts(MaxTokens) \cup ExampleTexts : Strip(s) = s}

CellIndexes == 0..4

InitClean ==
    /\ pc = "cell"
    /\ arg \in [i : CellIndexes, text : CellTexts]
    /\ out = ""
    /\ resp = NetErr
    /\ df = None
    /\ gets = 0
    /\ written = NoFile
    /\ cache = EmptyCache
    /\ served = None
    /\ stats = NoStats

CleanStep ==
    /\ pc = "cell"
    /\ out' = CleanCell(arg.i, arg.text)
    /\ pc' = "cleaned"
    /\ UNCHANGED <<resp, df, gets, written, cache, served, arg, stats>>

NextClean == CleanStep

SpecClean == InitClean /\ [][NextClean]_vars

----------------------------------------------------------------------------
(* Properties of the standalone run (Spec) *)

Returned == pc \in {"scraped", "saved", "done", "crashed", "failed"}

GotPage == resp.kind = "page" /\ resp.code < 400

\* the table the locator selected in the page of this run
Located == GotPage /\ Locate(resp.doc) # 0

Target == resp.doc[Locate(resp.doc)].tbl

\* the failures of the fetch, of the parse, of the table location and of the
\* normalization that the state records
FailurePath ==
    \/ resp.kind \in {"neterr", "badhtml"}
    \/ resp.code >= 400
    \/ \A i \in 1..Len(resp.doc) : resp.doc[i].tag # "table"
    \/ Located /\ "Player" \notin Range(Headers(Target))

\* C1: once scrape_morocco_team_table has returned, its value is None or a
\* frame, never an exception, and it is None after a network error, an error
\* status, a parse failure, a page without a table, or a located table
\* without a Player column.
C1_NeverRaises ==
    Returned => /\ df.k \in {"None", "df"}
                /\ FailurePath => df = None

C1_Witness ==
    /\ pc = "failed"
    /\ Located
    /\ "Player" \notin Range(Headers(Target))
    /\ Data(Target) # <<>>
    /\ df = None

\* C3: every frame the scrape returns has at least one row (a table whose
\* accepted rows all have an empty Player yields None).
C3_NoEmptyRoster ==
    (Returned /\ df.k = "df") => df.rows # <<>>

\* C4: a located table with a header row of four or more cells and no other
\* row, or only other rows of fewer than four cells, yields None, with or
\* without a tbody holding the header row.
C4_EmptyTableNoData ==
    ( /\ Returned
      /\ Located
      /\ Target.trs # <<>>
      /\ Len(Target.trs[1].cells) >= 4
      /\ \A k \in 2..Len(Target.trs) : Len(Target.trs[k].cells) < 4 )
    => df = None

\* C5: one run issues at most one GET; the export file is written exactly
\* when the scrape returned a frame, and holds that frame; after None the
\* caller stops with no file written and one GET issued.
C5_AllOrNothing ==
    /\ gets <= 1
    /\ (written # NoFile) <=> (pc \in {"saved", "done", "crashed"} /\ df.k = "df")
    /\ written # NoFile => written = df
    /\ pc \in {"done", "crashed", "failed"} => ((written # NoFile) <=> (df # None))
    /\ pc = "failed" => (df = None /\ written = NoFile /\ gets = 1)
    /\ (Returned /\ df = None) => pc \in {"scraped", "failed"}

C5_Witness ==
    /\ pc = "failed"
    /\ df = None
    /\ gets = 1
    /\ written = NoFile

HasRatio == Returned /\ df.k = "df" /\ HasCol(df, "Caps") /\ HasCol(df, "Goals")

Missing(x) == x.t = "nan"

\* goals/caps, missing when goals is missing
Quotient(goals, caps) ==
    IF Missing(goals) THEN NaN ELSE Num(goals.n * caps.d, goals.d * caps.n)

SameValue(a, b) == (Missing(a) /\ Missing(b)) \/ NumEq(a, b)

\* C7: in every row, Goal_Ratio is 0 when Caps is 0 or missing, and
\* Goals/Caps otherwise.
C7_GoalRatio ==
    HasRatio =>
        \A k \in 1..Len(df.rows) :
            LET caps  == df.rows[k].v["Caps"]
                goals == df.rows[k].v["Goals"]
                ratio == df.rows[k].v["Goal_Ratio"]
            IN  IF Missing(caps) \/ caps.n = 0
                THEN NumEq(ratio, Num(0, 1))
                ELSE SameValue(ratio, Quotient(goals, caps))

NonNegInteger(x) == x.t = "num" /\ x.n >= 0 /\ x.n % x.d = 0

\* C8: in every row, each of Number, Caps and Goals is missing or a
\* non-negative integer.
C8_NumericFields ==
    (Returned /\ df.k = "df") =>
        \A k \in 1..Len(df.rows) : \A c \in NumericCols \cap Range(df.cols) :
            Missing(df.rows[k].v[c]) \/ NonNegInteger(df.rows[k].v[c])

\* C9: every row of a returned frame has a Player that is a non-empty text.
C9_PlayerNonEmpty ==
    (Returned /\ df.k = "df") =>
        \A k \in 1..Len(df.rows) :
            df.rows[k].v["Player"].t = "str" /\ df.rows[k].v["Player"].s # ""

C9_Witness ==
    /\ Returned
    /\ df.k = "df"
    /\ Located
    /\ \E k \in 1..Len(Data(Target)) :
           Data(Target)[k][ColPos(Headers(Target), "Player")] = ""
    /\ Len(df.rows) >= 1
    /\ Len(df.rows) < Len(Data(Target))

----------------------------------------------------------------------------
(* Property of the dashboard's cache (SpecDash) *)

\* C6: the cached value of load_data is a frame, never None.
C6_CacheHoldsOnlyRoster ==
    cache.state = "fresh" => cache.value.k = "df"

----------------------------------------------------------------------------
(* Properties of the locator (SpecLocate) *)

PlayerHeading(doc, i) ==
    doc[i].tag \in {"h2", "h3", "h4"} /\ Contains(Lower(doc[i].text), "player")

SiblingTableAfter(doc, i, j) ==
    j > i /\ doc[j].tag = "table" /\ doc[j].parent = doc[i].parent

\* j is the first table among the later siblings of the heading at i
Adjacent(doc, i, j) ==
    /\ SiblingTableAfter(doc, i, j)
    /\ \A k \in 1..Len(doc) : SiblingTableAfter(doc, i, k) => j <= k

FirstPlayerHeading(doc, i) ==
    PlayerHeading(doc, i) /\ \A k \in 1..(i - 1) : ~PlayerHeading(doc, k)

\* a table that the keyword fallback accepts and that is adjacent to no
\* 'player' heading
UnrelatedFallback(doc, u) ==
    /\ doc[u].tag = "table"
    /\ StageBMatch(doc[u].tbl)
    /\ \A i \in 1..Len(doc) : ~(PlayerHeading(doc, i) /\ Adjacent(doc, i, u))

\* C2 as stated: whenever some 'player' heading of level 2-4 is followed by
\* a sibling table and an unrelated table passes the keyword fallback, the
\* selected table is one adjacent to such a heading.
C2_AnyHeadingPreferred ==
    ( /\ pc = "located"
      /\ \E i, j \in 1..Len(arg) : PlayerHeading(arg, i) /\ Adjacent(arg, i, j)
      /\ \E u \in 1..Len(arg) : UnrelatedFallback(arg, u) )
    => \E i, j \in 1..Len(arg) : PlayerHeading(arg, i) /\ Adjacent(arg, i, j) /\ out = j

\* C2, amended: when the first 'player' heading of level 2-4 has a table
\* among its later siblings, the first such table is selected, whatever
\* tables pass the keyword fallback; any selected position is a table.
C2_FirstHeadingPreferred ==
    pc = "located" =>
        /\ \A i, j \in 1..Len(arg) :
               (FirstPlayerHeading(arg, i) /\ Adjacent(arg, i, j)) => out = j
        /\ out # 0 => (out \in 1..Len(arg) /\ arg[out].tag = "table")

C2_Witness ==
    /\ pc = "located"
    /\ \E i, j, u \in 1..Len(arg) :
          /\ FirstPlayerHeading(arg, i)
          /\ Adjacent(arg, i, j)
          /\ UnrelatedFallback(arg, u)
          /\ u < j
          /\ ~StageBMatch(arg[j].tbl)
          /\ out = j

----------------------------------------------------------------------------
(* Properties of the cell cleanup (SpecClean) *)

\* a bracketed marker: '[' with a ']' after it
HasMarker(s) ==
    \E i, j \in 1..Len(s) : i < j /\ Char(s, i) = "[" /\ Char(s, j) = "]"

HasParen(s) == \E i \in 1..Len(s) : Char(s, i) \in {"(", ")"}

\* every '(age' of s has a ')' after it
AgeClosed(s) ==
    \A i \in 1..(Len(s) - 3) :
        SubSeq(s, i, i + 3) = "(age" => \E j \in (i + 4)..Len(s) : Char(s, j) = ")"

RECURSIVE IsSubsequence(_, _)
IsSubsequence(a, b) ==
    IF a = "" THEN TRUE
    ELSE IF b = "" THEN FALSE
    ELSE IF Char(a, 1) = Char(b, 1) THEN IsSubsequence(Drop(a, 1), Drop(b, 1))
    ELSE IsSubsequence(a, Drop(b, 1))

\* C10: at index 0 and 2 no bracketed marker is left and nothing else is
\* touched; at index 3 a closed '(age ...)' is removed, no parenthesis is
\* left and the text is stripped; at any other index the text is unchanged.
C10_PositionalCleanup ==
    pc = "cleaned" =>
        /\ arg.i \in {0, 2} =>
              /\ ~HasMarker(out)
              /\ IsSubsequence(out, arg.text)
              /\ ~HasMarker(arg.text) => out = arg.text
              /\ LET first == IndexFrom(arg.text, "[", 1)
                 IN  first > 0 => StartsWith(out, Take(arg.text, first - 1))
        /\ arg.i = 3 =>
              /\ ~HasParen(out)
              /\ Strip(out) = out
              /\ IsSubsequence(out, arg.text)
              /\ ~HasParen(arg.text) => out = arg.text
              /\ AgeClosed(arg.text) => ~Contains(out, "age")
        /\ arg.i \notin {0, 2, 3} => out = arg.text
        /\ (arg.i \in {0, 2} /\ arg.text = "Achraf Hakimi[1]") => out = "Achraf Hakimi"
        /\ (arg.i = 3 /\ arg.text = "5 November 1996 (age 28)") =>
              (out = "5 November 1996" /\ BirthYear(out) = Num(1996, 1))

C10_Witness ==
    /\ pc = "cleaned"
    /\ arg.i = 3
    /\ arg.text = "5 November 1996 (age 28)"
    /\ out = "5 November 1996"

----------------------------------------------------------------------------
(* Properties of the rows of the returned frame (Spec) *)

\* the rows of the table other than the one whose cells gave the labels
RowsAfterHeader(t) == IF t.trs = <<>> THEN <<>> ELSE Tail(t.trs)

\* the cleaned Player text of a table row under the table's labels
PlayerText(t, row) ==
    RowData(row, Len(Headers(t)))[ColPos(Headers(t), "Player")]

\* the data rows that are kept: accepted, with a non-empty Player
RetainedRows(t) ==
    LET Keep(row) == Accepted(row) /\ PlayerText(t, row) # ""
    IN  SelectSeq(RowsAfterHeader(t), Keep)

\* C11: a returned frame has one row per retained data row of the located
\* table, in document order, and the header row is not one of them; a header
\* row followed by one data row gives a frame of one row, with or without a
\* tbody.
C11_OneRowPerDataRow ==
    (Returned /\ Located /\ df.k = "df") =>
        LET kept == RetainedRows(Target)
        IN  /\ Len(df.rows) = Len(kept)
            /\ \A k \in 1..Len(df.rows) :
                   df.rows[k].v["Player"] = Str(PlayerText(Target, kept[k]))

----------------------------------------------------------------------------
(* Properties of the summary (Spec) *)

Present(c) == {k \in 1..Len(df.rows) : df.rows[k].v[c].t = "num"}

AtMost(a, b) == a.n * b.d <= b.n * a.d

\* row k holds the largest present value of column c and no earlier row does
FirstMaximum(k, c) ==
    /\ k \in Present(c)
    /\ \A j \in Present(c) : AtMost(df.rows[j].v[c], df.rows[k].v[c])
    /\ \A j \in Present(c) : j < k => ~AtMost(df.rows[k].v[c], df.rows[j].v[c])

\* the entry names the first row holding the largest present value of column
\* c, and there is no entry when no value is present
Reports(entry, c) ==
    IF Present(c) = {} THEN ~entry.set
    ELSE /\ entry.set
         /\ \E k \in Present(c) :
               FirstMaximum(k, c) /\ entry.name = df.rows[k].v["Player"].s

\* the exact sum of the present values of column c, 0 without the column
ExactSum(c) == IF HasCol(df, c) THEN SumRows(df.rows, c) ELSE Num(0, 1)

\* C13: the summary reports as top_scorer the first row with the largest
\* present Goals and as most_experienced the first row with the largest
\* present Caps; total_players is the number of rows and total_caps and
\* total_goals are the sums of the present values.
C13_SummaryStats ==
    pc = "done" =>
        /\ stats.total_players = Len(df.rows)
        /\ NumEq(Num(stats.total_caps, 1), ExactSum("Caps"))
        /\ NumEq(Num(stats.total_goals, 1), ExactSum("Goals"))
        /\ HasCol(df, "Goals") => Reports(stats.top_scorer, "Goals")
        /\ HasCol(df, "Caps") => Reports(stats.most_experienced, "Caps")

\* C14: on every frame the scrape returns, get_summary_stats returns a
\* record and raises nothing, so the caller never stops between the export
\* and the printed summary.
C14_StatsTotal ==
    /\ (pc = "saved" /\ df.k = "df") => get_summary_stats(df).k = "stats"
    /\ written # NoFile => pc # "crashed"

----------------------------------------------------------------------------
(* The extraction of labels and data rows on its own (lines 61-120): arg   *)
(* is the located table, out the labels and the list handed to DataFrame.  *)

EmptyElt == Row({"mw-empty-elt"}, <<Td(""), Td(""), Td(""), Td("")>>)

\* tables with a row flagged mw-empty-elt, next to the tables of Spec
FlaggedTables ==
    { [caption |-> "", sect |-> sc,
       trs |-> <<HeaderRow(<<"No.", "Pos.", "Player", "Date of birth (age)">>)>> \o rows] :
        sc \in {"none", "tbody"},
        rows \in SeqsUpTo({EmptyElt, Row({}, <<Td("x"), Td("DF"), Td("Sa"), Td("1 May 1998")>>)},
                          MaxRows) }

ExtractTables == Tables \cup FlaggedTables

InitExtract ==
    /\ pc = "located"
    /\ arg \in ExtractTables
    /\ out = [headers |-> <<>>, data |-> <<>>]
    /\ resp = NetErr
    /\ df = None
    /\ gets = 0
    /\ written = NoFile
    /\ cache = EmptyCache
    /\ served = None
    /\ stats = NoStats

\* lines 61-120
ExtractStep ==
    /\ pc = "located"
    /\ out' = [headers |-> Headers(arg), data |-> Data(arg)]
    /\ pc' = "extracted"
    /\ UNCHANGED <<resp, df, gets, written, cache, served, arg, stats>>

NextExtract == ExtractStep

SpecExtract == InitExtract /\ [][NextExtract]_vars

----------------------------------------------------------------------------
(* Property of the extraction (SpecExtract) *)

Flagged(row) == "sortbottom" \in row.cls \/ "mw-empty-elt" \in row.cls

Qualifies(row) == ~Flagged(row) /\ Len(row.cells) >= 4

\* C12: of the rows the loop goes through, exactly those that are not
\* flagged sortbottom or mw-empty-elt and have four or more cells give a data
\* row, in order; every data row has as many entries as there are labels:
\* the row's cleaned cells, cut after the last label or filled up with ''.
C12_AcceptanceAndShape ==
    pc = "extracted" =>
        LET n    == Len(out.headers)
            from == SelectSeq(BodyRows(arg), Qualifies)
        IN  /\ Len(out.data) = Len(from)
            /\ \A k \in 1..Len(out.data) :
                  /\ Len(out.data[k]) = n
                  /\ \A i \in 1..n :
                        out.data[k][i] =
                            IF i <= Len(from[k].cells)
                            THEN CleanCell(i - 1, GetTextStrip(from[k].cells[i], " "))
                            ELSE ""

\* a row of 4 cells filled up and a row of 7 cells cut, under 6 labels, next
\* to nothing else
C12_Witness ==
    /\ pc = "extracted"
    /\ Len(out.headers) = 6
    /\ Len(out.data) = 2
    /\ \E j, k \in 1..Len(arg.trs) :
          /\ Len(arg.trs[j].cells) = 4
          /\ Len(arg.trs[k].cells) = 7
    /\ \A k \in 1..2 : Len(out.data[k]) = 6

====
